---------------------------- MODULE Spec2Model ----------------------------
(***************************************************************************)
(* Model of causal_conv1d/causal_conv1d_interface.py: the autograd         *)
(* function CausalConv1dFn (forward / backward), the reference forward     *)
(* causal_conv1d_ref, and the streaming steps causal_conv1d_update and     *)
(* causal_conv1d_update_ref.                                               *)
(*                                                                         *)
(* A tensor of shape (B, D, L) is a sequence of B sequences of D sequences *)
(* of L integers (B, D >= 1); a (D, W) weight is a sequence of D rows; a   *)
(* bias is a sequence of D integers.  An absent optional tensor (Python's  *)
(* None) is the empty sequence.  Every call returns a record               *)
(* [err, val]: err = "" and the value on success, the name of the raised   *)
(* exception and no value otherwise.                                       *)
(***************************************************************************)
EXTENDS Integers, Sequences, FiniteSets, TLC

VARIABLES
    x,            \* the signal (B, D, L), or the timestep (B, D) of an update
    weight,       \* the filter (D, W)
    bias,         \* the bias (D,) or None
    hidden,       \* the initial state (B, D, S) or None
    seq_idx,      \* the segment index (B, L) or None
    activation,   \* the activation identifier
    conv_state,   \* the caller's rolling state buffer (B, D, W)
    out,          \* the value returned by the last call, None if it raised
    err,          \* the exception raised by the last call, "" if none
    pc,           \* the operation that acted last
    aux           \* what the last operation recorded besides its result

vars == <<x, weight, bias, hidden, seq_idx, activation, conv_state, out, err, pc, aux>>

(***************************************************************************)
(* Bounds of the model.                                                    *)
(***************************************************************************)
MaxLen == 3       \* longest source sequence (initial state + signal)
MaxWidth == 3     \* widest filter

\* (batch, dim) pairs the tensors are drawn with
Shapes == {<<1, 1>>, <<2, 1>>, <<1, 2>>}
XVal == {0, 1}

None == <<>>
NoAct == "None"

Ok(v) == [err |-> "", val |-> v]
Raise(e) == [err |-> e, val |-> None]

(***************************************************************************)
(* Tensor helpers.                                                         *)
(***************************************************************************)
RECURSIVE SumSeq(_)
SumSeq(s) == IF s = <<>> THEN 0 ELSE Head(s) + SumSeq(Tail(s))

\* x.shape of a 3-D tensor, weight.shape of a 2-D one
Shape3(t) == <<Len(t), Len(t[1]), Len(t[1][1])>>
Shape2(t) == <<Len(t), Len(t[1])>>

\* a Python slice t[..., lo:hi] of the last axis (0-based, hi exclusive, clamped)
SliceLast(t, lo, hi) ==
    LET B == Len(t)
        D == Len(t[1])
        L == Len(t[1][1])
        h == IF hi > L THEN L ELSE hi
        l == IF lo > h THEN h ELSE lo
    IN  [b \in 1..B |-> [d \in 1..D |-> [j \in 1..(h - l) |-> t[b][d][l + j]]]]

(***************************************************************************)
(* F.silu(y) = y * sigmoid(y), carried in thousandths and rounded to the   *)
(* nearest one: the table holds round(1000 * y / (1 + exp(-y))) for y in   *)
(* -9..9; from 10 on the rounded value is 1000 * y, and 0 from -10 down.   *)
(***************************************************************************)
SiluTable ==
    <<-1, -3, -6, -15, -33, -72, -142, -238, -269,
      0, 731, 1762, 2858, 3928, 4967, 5985, 6994, 7997, 8999>>

F_silu(y) ==
    IF y >= 10 THEN 1000 * y
    ELSE IF y <= -10 THEN 0
    ELSE SiluTable[y + 10]

\* line 82 / 121: out if activation is None else F.silu(out)
ApplyAct(activation_, y) == IF activation_ = NoAct THEN y ELSE F_silu(y)

\* the activation applied to every sample of a (B, D, L) tensor
Act3(activation_, t) ==
    LET B == Len(t)
        D == Len(t[1])
        L == Len(t[1][1])
    IN  [b \in 1..B |-> [d \in 1..D |->
            [j \in 1..L |-> ApplyAct(activation_, t[b][d][j])]]]

\* the activation applied to every sample of a (B, D) tensor
Act2(activation_, t) ==
    LET B == Len(t)
        D == Len(t[1])
    IN  [b \in 1..B |-> [d \in 1..D |-> ApplyAct(activation_, t[b][d])]]

\* a slip in lines 14, 61, 94, 109: one more identifier passes the activation test
ValidActivations_more == {NoAct, "silu", "swish", "relu"}

\* lines 14, 61, 94, 109: the activation identifiers the entry points accept
ValidActivations == {NoAct, "silu", "swish"}

(***************************************************************************)
(* torch.cat([hidden, x], dim=-1): the sizes of every other axis must      *)
(* match.                                                                  *)
(***************************************************************************)
torch_cat(h, x_) ==
    IF Len(h) # Len(x_) \/ Len(h[1]) # Len(x_[1])
    THEN Raise("RuntimeError")
    ELSE LET B == Len(x_)
             D == Len(x_[1])
             S == Len(h[1][1])
             L == Len(x_[1][1])
         IN  Ok([b \in 1..B |-> [d \in 1..D |->
                 [j \in 1..(S + L) |->
                     IF j <= S THEN h[b][d][j] ELSE x_[b][d][j - S]]]])

(***************************************************************************)
(* F.conv1d(x, weight.unsqueeze(1), bias, padding=padding, groups=dim):    *)
(* a cross-correlation of every channel with its own row of the weight,    *)
(* over the input padded with `padding` zeros on both sides; the output    *)
(* has Lin + 2*padding - W + 1 samples.  It raises when the channel count  *)
(* is not dim, when the bias is not of length dim, and when the padded     *)
(* input is shorter than the kernel.                                       *)
(***************************************************************************)
Padded(row, Lin, padding, i) ==
    IF i - padding >= 1 /\ i - padding <= Lin THEN row[i - padding] ELSE 0

F_conv1d(x_, weight_, bias_, padding) ==
    LET dim == Len(weight_)
        width == Len(weight_[1])
        B == Len(x_)
        Lin == Len(x_[1][1])
    IN  IF Len(x_[1]) # dim THEN Raise("RuntimeError")
        ELSE IF bias_ # None /\ Len(bias_) # dim THEN Raise("RuntimeError")
        ELSE IF Lin + 2 * padding < width THEN Raise("RuntimeError")
        ELSE Ok([b \in 1..B |-> [d \in 1..dim |->
                [j \in 1..(Lin + 2 * padding - width + 1) |->
                    SumSeq([k \in 1..width |->
                        weight_[d][k] * Padded(x_[b][d], Lin, padding, j + k - 1)])
                    + (IF bias_ # None THEN bias_[d] ELSE 0)]]])

(***************************************************************************)
(* causal_conv1d_ref(x, weight, bias, hidden, activation), lines 52-82.    *)
(***************************************************************************)
\* a slip in lines 67-71: the initial state is appended after the signal
ConcatHidden_after(hidden_, x_) ==
    IF hidden_ # None THEN torch_cat(x_, hidden_) ELSE Ok(x_)

\* lines 67-71: x = torch.cat([hidden, x], dim=-1) when hidden is given
ConcatHidden(hidden_, x_) ==
    IF hidden_ # None THEN torch_cat(hidden_, x_) ELSE Ok(x_)

\* a slip in line 76: the last seqlen samples are kept instead of the first
CausalSlice_tail(o, seqlen) == SliceLast(o, Len(o[1][1]) - seqlen, Len(o[1][1]))

\* line 76: out = out[..., :seqlen]
CausalSlice(o, seqlen) == SliceLast(o, 0, seqlen)

\* a slip in lines 79-80: the outputs of the initial state are cut at the end
DropHidden_end(o, hidden_) ==
    IF hidden_ # None
    THEN SliceLast(o, 0, Len(o[1][1]) - Len(hidden_[1][1]))
    ELSE o

\* lines 79-80: out = out[..., hidden.shape[-1]:] when hidden is given
DropHidden(o, hidden_) ==
    IF hidden_ # None
    THEN SliceLast(o, Len(hidden_[1][1]), Len(o[1][1]))
    ELSE o

causal_conv1d_ref(x_, weight_, bias_, hidden_, activation_) ==
    IF activation_ \notin ValidActivations THEN Raise("NotImplementedError")
    ELSE
    LET cat == ConcatHidden(hidden_, x_)
    IN  IF cat.err # "" THEN cat
        ELSE
        LET seqlen == Len(cat.val[1][1])
            width == Len(weight_[1])
            conv == F_conv1d(cat.val, weight_, bias_, width - 1)
        IN  IF conv.err # "" THEN conv
            ELSE Ok(Act3(activation_,
                         DropHidden(CausalSlice(conv.val, seqlen), hidden_)))

(***************************************************************************)
(* causal_conv1d_update_ref(x, conv_state, weight, bias, activation),      *)
(* lines 100-121.  The call returns [err, val, state]: state is the        *)
(* caller's buffer as the call leaves it.                                  *)
(***************************************************************************)
\* torch.roll(t, shifts, dims=-1): sample k moves to (k + shifts) mod W
torch_roll(t, shifts) ==
    LET B == Len(t)
        D == Len(t[1])
        W == Len(t[1][1])
    IN  [b \in 1..B |-> [d \in 1..D |->
            [k \in 1..W |-> t[b][d][((k - 1 - shifts) % W) + 1]]]]

\* a slip in line 116: the buffer is rolled the other way
RollState_right(s) == torch_roll(s, 1)

\* line 116: conv_state.copy_(torch.roll(conv_state, shifts=-1, dims=-1))
RollState(s) == torch_roll(s, -1)

\* a slip in line 117: the new sample is written into the first slot
WriteNewest_first(s, x_) ==
    LET B == Len(s)
        D == Len(s[1])
        W == Len(s[1][1])
    IN  [b \in 1..B |-> [d \in 1..D |->
            [k \in 1..W |-> IF k = 1 THEN x_[b][d] ELSE s[b][d][k]]]]

\* line 117: conv_state[:, :, -1] = x
WriteNewest(s, x_) ==
    LET B == Len(s)
        D == Len(s[1])
        W == Len(s[1][1])
    IN  [b \in 1..B |-> [d \in 1..D |->
            [k \in 1..W |-> IF k = W THEN x_[b][d] ELSE s[b][d][k]]]]

\* line 118: out = torch.sum(conv_state * weight, dim=-1)
StateDotWeight(s, weight_) ==
    LET B == Len(s)
        D == Len(s[1])
        W == Len(s[1][1])
    IN  [b \in 1..B |-> [d \in 1..D |->
            SumSeq([k \in 1..W |-> s[b][d][k] * weight_[d][k]])]]

\* lines 119-120: out += bias, in place: a bias of length dim is added per
\* channel, a bias of length 1 is broadcast, any other length raises
AddBias(o, bias_) ==
    LET B == Len(o)
        D == Len(o[1])
    IN  IF bias_ = None THEN Ok(o)
        ELSE IF Len(bias_) = D
             THEN Ok([b \in 1..B |-> [d \in 1..D |-> o[b][d] + bias_[d]]])
        ELSE IF Len(bias_) = 1
             THEN Ok([b \in 1..B |-> [d \in 1..D |-> o[b][d] + bias_[1]]])
        ELSE Raise("RuntimeError")

causal_conv1d_update_ref(x_, conv_state_, weight_, bias_, activation_) ==
    IF activation_ \notin ValidActivations
    THEN [err |-> "NotImplementedError", val |-> None, state |-> conv_state_]
    ELSE
    LET batch == Len(x_)
        dim == Len(x_[1])
        width == Len(weight_[1])
    IN  IF Shape3(conv_state_) # <<batch, dim, width>>
        THEN [err |-> "AssertionError", val |-> None, state |-> conv_state_]
        ELSE IF Shape2(weight_) # <<dim, width>>
        THEN [err |-> "AssertionError", val |-> None, state |-> conv_state_]
        ELSE
        LET s1 == WriteNewest(RollState(conv_state_), x_)
            o == AddBias(StateDotWeight(s1, weight_), bias_)
        IN  IF o.err # ""
            THEN [err |-> o.err, val |-> None, state |-> s1]
            ELSE [err |-> "",
                  val |-> Act2(activation_, o.val),
                  state |-> s1]

(***************************************************************************)
(* The compiled extension causal_conv1d_cuda is called by the interface    *)
(* and is no part of it.  Its three entry points follow the component      *)
(* design: the forward engine, the backward engine and the streaming       *)
(* update engine.  A shape mismatch is rejected before any computation.    *)
(***************************************************************************)
\* derivative of silu, sigmoid(y) * (1 + y * (1 - sigmoid(y))), in thousandths
SiluGradTable ==
    <<-1, -2, -5, -12, -27, -53, -88, -91, 72,
      500, 928, 1091, 1088, 1053, 1027, 1012, 1005, 1002, 1001>>

F_silu_grad(y) ==
    IF y >= 10 THEN 1000
    ELSE IF y <= -10 THEN 0
    ELSE SiluGradTable[y + 10]

\* the segment id of source index i (0-based from the first signal sample);
\* the samples of the initial state continue the segment of the first sample
SegOf(seq_idx_, b, i) == IF i >= 0 THEN seq_idx_[b][i + 1] ELSE seq_idx_[b][1]

\* a tap contributes unless a segment index is supplied and the segment ids
\* of its source index i and of the output time t differ
SameSegment(seq_idx_, b, i, t) ==
    seq_idx_ = None \/ SegOf(seq_idx_, b, i) = SegOf(seq_idx_, b, t)

\* the sample at source index i of the initial state followed by the signal
SrcSample(x_, hidden_, S, b, d, i) ==
    IF i >= 0 THEN x_[b][d][i + 1]
    ELSE IF i >= -S THEN hidden_[b][d][S + i + 1]
    ELSE 0

\* sum over the taps of weight[d,k] * src[t-(W-1)+k] (+ bias[d]), masked
PreActivation(x_, weight_, bias_, hidden_, S, W, seq_idx_, b, d, t) ==
    SumSeq([k \in 1..W |->
        IF SameSegment(seq_idx_, b, t - (W - 1) + (k - 1), t)
        THEN weight_[d][k] * SrcSample(x_, hidden_, S, b, d, t - (W - 1) + (k - 1))
        ELSE 0])
    + (IF bias_ # None THEN bias_[d] ELSE 0)

\* the shape errors of the forward and backward engines
FwdShapeError(x_, weight_, bias_, hidden_, seq_idx_) ==
    \/ Len(weight_) # Len(x_[1])
    \/ bias_ # None /\ Len(bias_) # Len(x_[1])
    \/ hidden_ # None /\ (Len(hidden_) # Len(x_) \/ Len(hidden_[1]) # Len(x_[1]))
    \/ seq_idx_ # None /\ Shape2(seq_idx_) # <<Len(x_), Len(x_[1][1])>>

causal_conv1d_fwd(x_, weight_, bias_, hidden_, seq_idx_, act) ==
    IF FwdShapeError(x_, weight_, bias_, hidden_, seq_idx_)
    THEN Raise("RuntimeError")
    ELSE
    LET B == Len(x_)
        D == Len(x_[1])
        L == Len(x_[1][1])
        W == Len(weight_[1])
        S == IF hidden_ = None THEN 0 ELSE Len(hidden_[1][1])
    IN  Ok([b \in 1..B |-> [d \in 1..D |-> [t \in 1..L |->
            LET y == PreActivation(x_, weight_, bias_, hidden_, S, W, seq_idx_,
                                   b, d, t - 1)
            IN  IF act THEN F_silu(y) ELSE y]]])

\* dout with the local derivative of the fused activation applied, the
\* pre-activation value being recomputed from the saved x, weight and bias
LocalGrad(x_, weight_, bias_, dout_, seq_idx_, act, W, b, d, t) ==
    IF act
    THEN dout_[b][d][t + 1]
         * F_silu_grad(PreActivation(x_, weight_, bias_, None, 0, W, seq_idx_, b, d, t))
    ELSE dout_[b][d][t + 1]

causal_conv1d_bwd(x_, weight_, bias_, dout_, seq_idx_, act) ==
    IF FwdShapeError(x_, weight_, bias_, None, seq_idx_) \/ Shape3(dout_) # Shape3(x_)
    THEN Raise("RuntimeError")
    ELSE
    LET B == Len(x_)
        D == Len(x_[1])
        L == Len(x_[1][1])
        W == Len(weight_[1])
        g == [b \in 1..B |-> [d \in 1..D |-> [t \in 1..L |->
                LocalGrad(x_, weight_, bias_, dout_, seq_idx_, act, W, b, d, t - 1)]]]
        \* dx[t] = sum_k weight[d,k] * dout[t + (W-1-k)], valid positions only
        dx == [b \in 1..B |-> [d \in 1..D |-> [t \in 1..L |->
                SumSeq([k \in 1..W |->
                    LET u == (t - 1) + (W - 1 - (k - 1))
                    IN  IF u < L /\ SameSegment(seq_idx_, b, t - 1, u)
                        THEN weight_[d][k] * g[b][d][u + 1]
                        ELSE 0])]]]
        \* dweight[d,k] = sum over (batch, time) of x[t - (W-1-k)] * dout[t]
        dweight == [d \in 1..D |-> [k \in 1..W |->
                SumSeq([b \in 1..B |->
                    SumSeq([t \in 1..L |->
                        LET i == (t - 1) - (W - 1 - (k - 1))
                        IN  IF i >= 0 /\ SameSegment(seq_idx_, b, i, t - 1)
                            THEN x_[b][d][i + 1] * g[b][d][t]
                            ELSE 0])])]]
        \* dbias[d] = sum of dout over batch and time, if bias was used
        dbias == IF bias_ = None THEN None
                 ELSE [d \in 1..D |->
                        SumSeq([b \in 1..B |-> SumSeq([t \in 1..L |-> g[b][d][t]])])]
    IN  Ok(<<dx, dweight, dbias>>)

\* the streaming update engine: [err, val, state]
causal_conv1d_cuda_update(x_, conv_state_, weight_, bias_, act) ==
    IF \/ Shape3(conv_state_) # <<Len(x_), Len(x_[1]), Len(weight_[1])>>
       \/ Len(weight_) # Len(x_[1])
       \/ bias_ # None /\ Len(bias_) # Len(x_[1])
    THEN [err |-> "RuntimeError", val |-> None, state |-> conv_state_]
    ELSE
    LET s1 == WriteNewest(RollState(conv_state_), x_)
        o == AddBias(StateDotWeight(s1, weight_), bias_)
    IN  [err |-> "",
         val |-> Act2(IF act THEN "silu" ELSE NoAct, o.val),
         state |-> s1]

(***************************************************************************)
(* CausalConv1dFn.forward, lines 13-23.  layout tells which axis of x has  *)
(* stride 1: "time" (x.stride(2) = 1), "channel" (x.stride(1) = 1) or      *)
(* "none".  The call returns [err, val, ctx, kernel]: ctx is what the call *)
(* left in the autograd context (None when nothing was saved) and kernel   *)
(* the extension entry points it called.                                   *)
(***************************************************************************)
\* lines 16-17: x = x.contiguous() when neither axis has stride 1
Contiguous(layout) == IF layout = "none" THEN "time" ELSE layout

CausalConv1dFn_forward(x_, layout, weight_, bias_, hidden_, seq_idx_, activation_) ==
    IF activation_ \notin ValidActivations
    THEN [err |-> "NotImplementedError", val |-> None, ctx |-> None, kernel |-> <<>>]
    ELSE
    LET act == activation_ \in {"silu", "swish"}
        saved == [x |-> x_, layout |-> Contiguous(layout), weight |-> weight_,
                  bias |-> bias_, seq_idx |-> seq_idx_, activation |-> act]
        r == causal_conv1d_fwd(x_, weight_, bias_, hidden_, seq_idx_, act)
    IN  [err |-> r.err, val |-> r.val, ctx |-> saved,
         kernel |-> <<"causal_conv1d_fwd">>]

(***************************************************************************)
(* CausalConv1dFn.backward, lines 26-36: the tuple it returns.             *)
(***************************************************************************)
\* a slip in line 36: the condition of the bias slot is inverted
GradTuple_inverted(dx, dweight, dbias, bias_) ==
    <<dx, dweight, IF bias_ = None THEN dbias ELSE None, None, None>>

\* line 36: return dx, dweight, dbias if bias is not None else None, None, None
GradTuple(dx, dweight, dbias, bias_) ==
    <<dx, dweight, IF bias_ # None THEN dbias ELSE None, None, None>>

CausalConv1dFn_backward(ctx, dout_) ==
    LET r == causal_conv1d_bwd(ctx.x, ctx.weight, ctx.bias, dout_, ctx.seq_idx,
                               ctx.activation)
    IN  IF r.err # "" THEN [err |-> r.err, val |-> None, kernel |-> None]
        ELSE [err |-> "",
              val |-> GradTuple(r.val[1], r.val[2], r.val[3], ctx.bias),
              kernel |-> r.val]

(***************************************************************************)
(* causal_conv1d_update, lines 85-97: [err, val, state, kernel].           *)
(***************************************************************************)
causal_conv1d_update(x_, conv_state_, weight_, bias_, activation_) ==
    IF activation_ \notin ValidActivations
    THEN [err |-> "NotImplementedError", val |-> None, state |-> conv_state_,
          kernel |-> <<>>]
    ELSE
    LET r == causal_conv1d_cuda_update(x_, conv_state_, weight_, bias_,
                                       activation_ \in {"silu", "swish"})
    IN  [err |-> r.err, val |-> r.val, state |-> r.state,
         kernel |-> <<"causal_conv1d_update">>]

(***************************************************************************)
(* Inputs the behaviours are drawn from.                                   *)
(***************************************************************************)
Tensors3(B, D, L, V) == [1..B -> [1..D -> [1..L -> V]]]
Tensors2(B, D, V) == [1..B -> [1..D -> V]]

\* rows of a filter of width W: rising and falling taps
WeightRows(W) == {[k \in 1..W |-> k], [k \in 1..W |-> W + 1 - k]}
Weights(D, W) == [1..D -> WeightRows(W)]
Biases(D) == {None, [d \in 1..D |-> d]}

\* the samples of x[..., lo:hi] (0-based, hi exclusive)
Chunk(x_, lo, hi) == SliceLast(x_, lo, hi)

\* x with the sample (b, d, j) replaced by v
WithSample(x_, b, d, j, v) ==
    LET B == Len(x_)
        D == Len(x_[1])
        L == Len(x_[1][1])
    IN  [b1 \in 1..B |-> [d1 \in 1..D |->
            [j1 \in 1..L |->
                IF b1 = b /\ d1 = d /\ j1 = j THEN v ELSE x_[b1][d1][j1]]]]

(***************************************************************************)
(* SpecFwd: calls of the reference forward on one drawn set of inputs.     *)
(***************************************************************************)
InitFwd ==
    /\ \E shape \in Shapes, L \in 1..MaxLen, W \in 1..MaxWidth :
         /\ x \in Tensors3(shape[1], shape[2], L, XVal)
         /\ weight \in Weights(shape[2], W)
         /\ bias \in Biases(shape[2])
         /\ hidden \in {None} \cup
              UNION {Tensors3(shape[1], shape[2], S, XVal) : S \in 0..(MaxLen - L)}
    /\ activation \in {NoAct, "silu"}
    /\ seq_idx = None
    /\ conv_state = None
    /\ out = None
    /\ err = ""
    /\ pc = "init"
    /\ aux = None

\* out = causal_conv1d_ref(x, weight, bias, hidden, activation)
CallRef ==
    /\ pc = "init"
    /\ LET r == causal_conv1d_ref(x, weight, bias, hidden, activation)
       IN  /\ out' = r.val
           /\ err' = r.err
    /\ pc' = "ref"
    /\ UNCHANGED <<x, weight, bias, hidden, seq_idx, activation, conv_state, aux>>

\* the same call on x and on a copy of x that differs in one sample (of the
\* two signals of such a pair, x is the one with the smaller sample)
CallRefPerturbed ==
    /\ pc = "init"
    /\ \E b \in 1..Len(x), d \in 1..Len(x[1]), j \in 1..Len(x[1][1]) :
         \E v \in {u \in XVal : u > x[b][d][j]} :
           LET x2 == WithSample(x, b, d, j, v)
               r == causal_conv1d_ref(x, weight, bias, hidden, activation)
               r2 == causal_conv1d_ref(x2, weight, bias, hidden, activation)
           IN  /\ out' = r.val
               /\ err' = r.err
               /\ aux' = [x2 |-> x2, out2 |-> r2.val, err2 |-> r2.err]
    /\ pc' = "perturbed"
    /\ UNCHANGED <<x, weight, bias, hidden, seq_idx, activation, conv_state>>

\* the full sequence in one call, then chunk 1 = x[..., :p] and
\* chunk 2 = x[..., p:] seeded with the last width-1 samples of chunk 1
CallRefChunks ==
    /\ pc = "init"
    /\ hidden = None
    /\ \E p \in (Len(weight[1]) - 1)..Len(x[1][1]) :
         LET width == Len(weight[1])
             full == causal_conv1d_ref(x, weight, bias, None, activation)
             c1 == causal_conv1d_ref(Chunk(x, 0, p), weight, bias, None, activation)
             c2 == causal_conv1d_ref(Chunk(x, p, Len(x[1][1])), weight, bias,
                                     Chunk(x, p - (width - 1), p), activation)
         IN  /\ out' = full.val
             /\ err' = full.err
             /\ aux' = [p |-> p, out1 |-> c1.val, err1 |-> c1.err,
                        out2 |-> c2.val, err2 |-> c2.err]
    /\ pc' = "chunks"
    /\ UNCHANGED <<x, weight, bias, hidden, seq_idx, activation, conv_state>>

NextFwd == CallRef \/ CallRefChunks

SpecFwd == InitFwd /\ [][NextFwd]_vars

(***************************************************************************)
(* SpecCausal: the reference forward on a signal and on a perturbed copy.  *)
(***************************************************************************)
InitCausal ==
    /\ \E shape \in Shapes, L \in 1..MaxLen, W \in 1..MaxWidth :
         /\ x \in Tensors3(shape[1], shape[2], L, XVal)
         /\ weight \in Weights(shape[2], W)
         /\ bias \in Biases(shape[2])
         /\ hidden \in {None} \cup
              UNION {Tensors3(shape[1], shape[2], S, {1}) : S \in 0..(MaxLen - L)}
    /\ activation \in {NoAct, "silu"}
    /\ seq_idx = None
    /\ conv_state = None
    /\ out = None
    /\ err = ""
    /\ pc = "init"
    /\ aux = None

NextCausal == CallRefPerturbed

SpecCausal == InitCausal /\ [][NextCausal]_vars

(***************************************************************************)
(* Shapes of the inputs of the state.                                      *)
(***************************************************************************)
BatchOf(t) == Len(t)
DimOf(t) == Len(t[1])
LenOf(t) == Len(t[1][1])
WidthOf(w) == Len(w[1])
HiddenWidth == IF hidden = None THEN 0 ELSE LenOf(hidden)

\* the source of the forward: the initial state followed by the signal.
\* i counts from the first signal sample (0-based); positions before the
\* start of the source are zero
Src(b, d, i) ==
    IF i >= 0 THEN x[b][d][i + 1]
    ELSE IF i >= -HiddenWidth THEN hidden[b][d][HiddenWidth + i + 1]
    ELSE 0

\* sum over k in 0..W-1 of weight[d,k] * src[t-(W-1)+k] (+ bias[d]), t 0-based
WindowSum(b, d, t) ==
    SumSeq([k \in 1..WidthOf(weight) |->
        weight[d][k] * Src(b, d, t - (WidthOf(weight) - 1) + (k - 1))])
    + (IF bias # None THEN bias[d] ELSE 0)

(***************************************************************************)
(* C2: causal_conv1d_ref on a signal (B, D, L), a filter (D, W), an        *)
(* optional bias and an optional initial state of any width S >= 0 returns *)
(* an output of shape (B, D, L) whose sample (b, d, t) is the window sum   *)
(* over the initial state followed by the signal, zero before the start of *)
(* the source, plus the bias when given (passed through silu when the      *)
(* activation is requested).                                               *)
(***************************************************************************)
C2_ForwardResult ==
    pc = "ref" =>
        /\ err = ""
        /\ Shape3(out) = Shape3(x)
        /\ \A b \in 1..BatchOf(x), d \in 1..DimOf(x), t \in 1..LenOf(x) :
             out[b][d][t] = ApplyAct(activation, WindowSum(b, d, t - 1))

\* a forward whose window covers the signal, the initial state and the zeros
\* before it, with a bias
C2_Witness ==
    /\ pc = "ref"
    /\ err = ""
    /\ hidden # None
    /\ HiddenWidth = 1
    /\ WidthOf(weight) = 3
    /\ hidden[1][1][1] = 1
    /\ x[1][1][1] = 1
    /\ bias # None
    /\ activation = NoAct
    /\ out[1][1][1] = weight[1][2] + weight[1][3] + bias[1]

(***************************************************************************)
(* C3 as claimed: for every split point p with W-1 <= p <= L, the forward  *)
(* on chunk 2 = x[..., p:] with hidden = x[..., p-(W-1):p] returns         *)
(* causal_conv1d_ref(x)[..., p:], and the outputs of chunk 1 followed by   *)
(* those of chunk 2 are the output of the full sequence.                   *)
(***************************************************************************)
ChunksAgree ==
    /\ err = ""
    /\ aux.err1 = ""
    /\ aux.err2 = ""
    /\ aux.out2 = Chunk(out, aux.p, LenOf(x))
    /\ \A b \in 1..BatchOf(x), d \in 1..DimOf(x) :
         aux.out1[b][d] \o aux.out2[b][d] = out[b][d]

C3_AsClaimed == pc = "chunks" => ChunksAgree

(***************************************************************************)
(* C3 as amended: the same, for every split point at which both calls are  *)
(* given at least one source sample: every p with W-1 <= p <= L when       *)
(* W >= 2, and 0 < p < L when W = 1.                                       *)
(***************************************************************************)
C3_StateContinuity ==
    (pc = "chunks" /\ (WidthOf(weight) >= 2 \/ (0 < aux.p /\ aux.p < LenOf(x))))
        => ChunksAgree

\* a split in the middle, whose second chunk reads the first through hidden
C3_Witness ==
    /\ pc = "chunks"
    /\ WidthOf(weight) = 3
    /\ LenOf(x) = 3
    /\ aux.p = 2
    /\ x[1][1] = <<1, 1, 0>>
    /\ activation = NoAct
    /\ bias = None
    /\ aux.out2[1][1] = <<weight[1][1] + weight[1][2]>>
    /\ ChunksAgree

(***************************************************************************)
(* C4: two signals that agree on the time indices 0..t (same filter, bias, *)
(* initial state and activation) have forward outputs that agree on 0..t.  *)
(***************************************************************************)
AgreeUpTo(a, c, t) ==
    \A b \in 1..BatchOf(a), d \in 1..DimOf(a), j \in 1..t : a[b][d][j] = c[b][d][j]

C4_Causality ==
    pc = "perturbed" =>
        /\ err = ""
        /\ aux.err2 = ""
        /\ \A t \in 1..LenOf(x) :
             AgreeUpTo(x, aux.x2, t) => AgreeUpTo(out, aux.out2, t)

\* a perturbation of a later sample that changes the outputs from there on
C4_Witness ==
    /\ pc = "perturbed"
    /\ LenOf(x) = 3
    /\ AgreeUpTo(x, aux.x2, 1)
    /\ x[1][1][2] # aux.x2[1][1][2]
    /\ AgreeUpTo(out, aux.out2, 1)
    /\ out[1][1][2] # aux.out2[1][1][2]
    /\ out[1][1][3] # aux.out2[1][1][3]

(***************************************************************************)
(* SpecStream: a sequence fed one timestep at a time through               *)
(* causal_conv1d_update_ref on one buffer, then in one piece through       *)
(* causal_conv1d_ref.  aux keeps the initial buffer s0, the buffer before  *)
(* the last call, and the inputs and outputs of the calls so far.          *)
(***************************************************************************)
ZeroState(B, D, W) == [b \in 1..B |-> [d \in 1..D |-> [k \in 1..W |-> 0]]]
\* a buffer whose samples are all different
MarkedState(B, D, W) ==
    [b \in 1..B |-> [d \in 1..D |-> [k \in 1..W |-> 10 * b + 100 * d + k + 1]]]

InitStream ==
    /\ \E shape \in Shapes, W \in 1..MaxWidth :
         /\ weight \in Weights(shape[2], W)
         /\ bias \in Biases(shape[2])
         /\ conv_state \in {ZeroState(shape[1], shape[2], W),
                            MarkedState(shape[1], shape[2], W)}
    /\ activation \in {NoAct, "silu"}
    /\ x = None
    /\ hidden = None
    /\ seq_idx = None
    /\ out = None
    /\ err = ""
    /\ pc = "init"
    /\ aux = [s0 |-> conv_state, prev |-> conv_state, xs |-> <<>>, outs |-> <<>>]

\* out = causal_conv1d_update_ref(x_t, conv_state, weight, bias, activation)
StreamStep ==
    /\ pc \in {"init", "update_ref"}
    /\ Len(aux.xs) < MaxLen
    /\ \E xt \in Tensors2(Len(conv_state), Len(conv_state[1]), XVal) :
         LET r == causal_conv1d_update_ref(xt, conv_state, weight, bias, activation)
         IN  /\ x' = xt
             /\ conv_state' = r.state
             /\ out' = r.val
             /\ err' = r.err
             /\ aux' = [aux EXCEPT !.prev = conv_state,
                                   !.xs = Append(aux.xs, xt),
                                   !.outs = Append(aux.outs, r.val)]
    /\ pc' = "update_ref"
    /\ UNCHANGED <<weight, bias, hidden, seq_idx, activation>>

\* the timesteps fed so far as one signal (B, D, L)
Assemble(xs) ==
    [b \in 1..Len(xs[1]) |-> [d \in 1..Len(xs[1][1]) |->
        [t \in 1..Len(xs) |-> xs[t][b][d]]]]

\* out = causal_conv1d_ref(x, weight, bias, None, activation) on the sequence
StreamRef ==
    /\ pc = "update_ref"
    /\ LET r == causal_conv1d_ref(Assemble(aux.xs), weight, bias, None, activation)
       IN  /\ x' = Assemble(aux.xs)
           /\ out' = r.val
           /\ err' = r.err
    /\ pc' = "stream_ref"
    /\ UNCHANGED <<weight, bias, hidden, seq_idx, activation, conv_state, aux>>

NextStream == StreamStep \/ StreamRef

SpecStream == InitStream /\ [][NextStream]_vars

(***************************************************************************)
(* C1: from a buffer of zeros, the output of the t-th update call equals   *)
(* causal_conv1d_ref(x, weight, bias, hidden=None)[:, :, t], for every t,  *)
(* batch and channel.                                                      *)
(***************************************************************************)
IsZeroState(s) == \A b \in 1..Len(s), d \in 1..Len(s[1]), k \in 1..Len(s[1][1]) : s[b][d][k] = 0

C1_StreamingEquivalence ==
    (pc = "stream_ref" /\ IsZeroState(aux.s0)) =>
        /\ err = ""
        /\ \A t \in 1..Len(aux.xs), b \in 1..BatchOf(x), d \in 1..DimOf(x) :
             aux.outs[t][b][d] = out[b][d][t]

\* three steps through a filter of width 3 whose outputs are not all equal
C1_Witness ==
    /\ pc = "stream_ref"
    /\ IsZeroState(aux.s0)
    /\ Len(aux.xs) = 3
    /\ WidthOf(weight) = 3
    /\ weight[1] = <<1, 2, 3>>
    /\ bias = None
    /\ activation = NoAct
    /\ x[1][1] = <<1, 1, 0>>
    /\ out[1][1] = <<3, 5, 3>>
    /\ \A t \in 1..3 : aux.outs[t][1][1] = out[1][1][t]

(***************************************************************************)
(* C8: a successful update call on the buffer (s[0], ..., s[W-1]) leaves   *)
(* (s[1], ..., s[W-1], x) per (batch, channel) and returns                 *)
(* act(sum over k of newstate[k] * weight[d,k] + bias[d]); after n         *)
(* successful calls from s0 the buffer holds the last W elements of s0     *)
(* followed by the n inputs, oldest first.                                 *)
(***************************************************************************)
LastN(s, n) == SubSeq(s, Len(s) - n + 1, Len(s))

Fed(b, d) == [t \in 1..Len(aux.xs) |-> aux.xs[t][b][d]]

C8_RollingState ==
    (pc = "update_ref" /\ err = "") =>
        \A b \in 1..Len(conv_state), d \in 1..Len(conv_state[1]) :
            /\ conv_state[b][d] = Tail(aux.prev[b][d]) \o <<x[b][d]>>
            /\ out[b][d] =
                 ApplyAct(activation,
                     SumSeq([k \in 1..WidthOf(weight) |->
                                conv_state[b][d][k] * weight[d][k]])
                     + (IF bias # None THEN bias[d] ELSE 0))
            /\ conv_state[b][d] = LastN(aux.s0[b][d] \o Fed(b, d), WidthOf(weight))

\* two calls on a marked buffer of width 3: one old sample is left, followed
\* by the two inputs
C8_Witness ==
    /\ pc = "update_ref"
    /\ err = ""
    /\ WidthOf(weight) = 3
    /\ ~IsZeroState(aux.s0)
    /\ Len(aux.xs) = 2
    /\ conv_state[1][1] = <<aux.s0[1][1][3], 1, 0>>
    /\ bias # None
    /\ activation = "silu"

(***************************************************************************)
(* SpecErr: a state buffer advanced by fitting update calls, then one call *)
(* of one of the four entry points with arguments whose shapes and         *)
(* activation identifier may or may not fit.  aux keeps the buffer as it   *)
(* was before the call, what the call saved for backward and the extension *)
(* entry points it called.                                                 *)
(***************************************************************************)
Ones2(shape) == [b \in 1..shape[1] |-> [d \in 1..shape[2] |-> 1]]
Ones3(shape, L) == [b \in 1..shape[1] |-> [d \in 1..shape[2] |-> [t \in 1..L |-> 1]]]
Zeros2(B, L) == [b \in 1..B |-> [t \in 1..L |-> 0]]

ArgActivations == {NoAct, "silu", "swish", "relu"}
ArgBiases == {None, <<1>>, <<1, 2>>, <<1, 2, 3>>}
ArgWeights(widths) == {[d \in 1..D |-> [k \in 1..W |-> k]] : D \in 1..2, W \in widths}
ArgHiddens == {None, Ones3(<<1, 1>>, 1), Ones3(<<1, 2>>, 1)}
ArgSeqIdx == {None, Zeros2(1, 2)}
Layouts == {"time", "channel", "none"}

InitErr ==
    /\ \E shape \in Shapes, W \in 1..MaxWidth :
         conv_state = MarkedState(shape[1], shape[2], W)
    /\ x = None
    /\ weight = None
    /\ bias = None
    /\ hidden = None
    /\ seq_idx = None
    /\ activation = NoAct
    /\ out = None
    /\ err = ""
    /\ pc = "init"
    /\ aux = [prev |-> conv_state, saved |-> None, kernel |-> <<>>]

\* a fitting call of causal_conv1d_update_ref that advances the buffer
ErrAdvance ==
    /\ pc \in {"init", "advanced"}
    /\ LET shape == <<Len(conv_state), Len(conv_state[1])>>
           w == [d \in 1..shape[2] |-> [k \in 1..Len(conv_state[1][1]) |-> k]]
           r == causal_conv1d_update_ref(Ones2(shape), conv_state, w, None, NoAct)
       IN  /\ x' = Ones2(shape)
           /\ weight' = w
           /\ conv_state' = r.state
           /\ out' = r.val
           /\ err' = r.err
    /\ pc' = "advanced"
    /\ aux' = [prev |-> conv_state, saved |-> None, kernel |-> <<>>]
    /\ UNCHANGED <<bias, hidden, seq_idx, activation>>

\* causal_conv1d_update_ref(x, conv_state, weight, bias, activation)
ErrUpdateRef ==
    /\ pc \in {"init", "advanced"}
    /\ \E shape \in Shapes, w \in ArgWeights(1..MaxWidth), bi \in ArgBiases,
       a \in ArgActivations :
        LET r == causal_conv1d_update_ref(Ones2(shape), conv_state, w, bi, a)
        IN  /\ x' = Ones2(shape)
            /\ weight' = w
            /\ bias' = bi
            /\ activation' = a
            /\ conv_state' = r.state
            /\ out' = r.val
            /\ err' = r.err
            /\ pc' = "update_ref"
            /\ aux' = [prev |-> conv_state, saved |-> None, kernel |-> <<>>]
            /\ UNCHANGED <<hidden, seq_idx>>

\* causal_conv1d_update(x, conv_state, weight, bias, activation)
ErrUpdate ==
    /\ pc \in {"init", "advanced"}
    /\ \E shape \in Shapes, w \in ArgWeights(1..MaxWidth), bi \in ArgBiases,
       a \in ArgActivations :
        LET r == causal_conv1d_update(Ones2(shape), conv_state, w, bi, a)
        IN  /\ x' = Ones2(shape)
            /\ weight' = w
            /\ bias' = bi
            /\ activation' = a
            /\ conv_state' = r.state
            /\ out' = r.val
            /\ err' = r.err
            /\ pc' = "update"
            /\ aux' = [prev |-> conv_state, saved |-> None, kernel |-> r.kernel]
            /\ UNCHANGED <<hidden, seq_idx>>

\* causal_conv1d_ref(x, weight, bias, hidden, activation)
ErrRef ==
    /\ pc \in {"init", "advanced"}
    /\ \E shape \in Shapes, w \in ArgWeights({2}), bi \in ArgBiases \ {<<1, 2, 3>>},
       h \in ArgHiddens, a \in ArgActivations :
        LET r == causal_conv1d_ref(Ones3(shape, 2), w, bi, h, a)
        IN  /\ x' = Ones3(shape, 2)
            /\ weight' = w
            /\ bias' = bi
            /\ hidden' = h
            /\ activation' = a
            /\ out' = r.val
            /\ err' = r.err
            /\ pc' = "ref"
            /\ aux' = [prev |-> conv_state, saved |-> None, kernel |-> <<>>]
            /\ UNCHANGED <<seq_idx, conv_state>>

\* causal_conv1d_fn(x, weight, bias, hidden, seq_idx, activation)
ErrFn ==
    /\ pc \in {"init", "advanced"}
    /\ \E shape \in Shapes, w \in ArgWeights({2}), bi \in ArgBiases \ {<<1, 2, 3>>},
       h \in ArgHiddens, si \in ArgSeqIdx, a \in ArgActivations, layout \in Layouts :
        LET r == CausalConv1dFn_forward(Ones3(shape, 2), layout, w, bi, h, si, a)
        IN  /\ x' = Ones3(shape, 2)
            /\ weight' = w
            /\ bias' = bi
            /\ hidden' = h
            /\ seq_idx' = si
            /\ activation' = a
            /\ out' = r.val
            /\ err' = r.err
            /\ pc' = "forward"
            /\ aux' = [prev |-> conv_state, saved |-> r.ctx, kernel |-> r.kernel]
            /\ UNCHANGED conv_state

NextErr == ErrAdvance \/ ErrUpdateRef \/ ErrUpdate \/ ErrRef \/ ErrFn

SpecErr == InitErr /\ [][NextErr]_vars

(***************************************************************************)
(* C6: a call of causal_conv1d_update_ref whose x, state buffer, weight or *)
(* bias shapes do not match (state buffer not (B, D, W), weight not        *)
(* (D, W), bias not of length D) ends in an error and leaves the state     *)
(* buffer as it was; a call either fully succeeds or changes nothing.      *)
(***************************************************************************)
UpdateShapesMismatch ==
    \/ Shape3(aux.prev) # <<Len(x), Len(x[1]), Len(weight[1])>>
    \/ Shape2(weight) # <<Len(x[1]), Len(weight[1])>>
    \/ bias # None /\ Len(bias) # Len(x[1])

C6_ShapeErrorsAtomic ==
    pc = "update_ref" =>
        /\ UpdateShapesMismatch => (err # "" /\ conv_state = aux.prev)
        /\ err # "" => conv_state = aux.prev

(***************************************************************************)
(* C7: in causal_conv1d_fn, causal_conv1d_ref, causal_conv1d_update and    *)
(* causal_conv1d_update_ref an activation other than None, "silu" or       *)
(* "swish" raises NotImplementedError before anything is saved for         *)
(* backward, passed to the extension or mutated; the state buffer of an    *)
(* update call is unchanged, also when the shapes are invalid too.         *)
(***************************************************************************)
C7_ActivationRejectedEagerly ==
    (pc \in {"forward", "ref", "update", "update_ref"}
     /\ activation \notin {NoAct, "silu", "swish"}) =>
        /\ err = "NotImplementedError"
        /\ out = None
        /\ conv_state = aux.prev
        /\ aux.saved = None
        /\ aux.kernel = <<>>

\* an update_ref call with an unsupported activation and a buffer of the
\* wrong shape, after a call that had advanced the buffer
C7_Witness ==
    /\ pc = "update_ref"
    /\ activation = "relu"
    /\ UpdateShapesMismatch
    /\ err = "NotImplementedError"
    /\ conv_state = aux.prev
    /\ conv_state # MarkedState(Len(conv_state), Len(conv_state[1]), Len(conv_state[1][1]))

(***************************************************************************)
(* SpecFn: one causal_conv1d_fn call (CausalConv1dFn.forward) and the      *)
(* backward call on the context it saved.  After forward aux.kernel names  *)
(* the extension entry point called; after backward it holds the three     *)
(* gradients the extension returned.                                       *)
(***************************************************************************)
Ramp3(shape, L) == [b \in 1..shape[1] |-> [d \in 1..shape[2] |-> [t \in 1..L |-> t + d - b]]]
SampleSignals(shape, L) == {Ones3(shape, L), Ramp3(shape, L)}
\* segment ids of a batch row: the first sample is in segment 0
SegmentIndexes(B, L) ==
    {[b \in 1..B |-> lab] : lab \in {l \in [1..L -> {0, 1}] : l[1] = 0}}

InitFn ==
    /\ \E shape \in Shapes, L \in 1..MaxLen, W \in 1..MaxWidth :
         /\ x \in SampleSignals(shape, L)
         /\ weight \in Weights(shape[2], W)
         /\ bias \in Biases(shape[2])
         /\ hidden \in {None, Ones3(shape, 1)}
         /\ seq_idx \in {None} \cup SegmentIndexes(shape[1], L)
    /\ activation \in {NoAct, "silu"}
    /\ conv_state = None
    /\ out = None
    /\ err = ""
    /\ pc = "init"
    /\ aux = [saved |-> None, kernel |-> <<>>, dout |-> None]

\* out = causal_conv1d_fn(x, weight, bias, hidden, seq_idx, activation)
FnForward ==
    /\ pc = "init"
    /\ \E layout \in Layouts :
         LET r == CausalConv1dFn_forward(x, layout, weight, bias, hidden, seq_idx,
                                         activation)
         IN  /\ out' = r.val
             /\ err' = r.err
             /\ aux' = [saved |-> r.ctx, kernel |-> r.kernel, dout |-> None]
    /\ pc' = "forward"
    /\ UNCHANGED <<x, weight, bias, hidden, seq_idx, activation, conv_state>>

\* out = CausalConv1dFn.backward(ctx, dout); lines 28-29 make dout contiguous
FnBackward ==
    /\ pc = "forward"
    /\ err = ""
    /\ \E dout \in SampleSignals(<<Len(x), Len(x[1])>>, Len(x[1][1])),
          dlayout \in Layouts :
         LET r == CausalConv1dFn_backward(aux.saved, dout)
         IN  /\ out' = r.val
             /\ err' = r.err
             /\ aux' = [saved |-> aux.saved, kernel |-> r.kernel,
                        dout |-> [val |-> dout, layout |-> Contiguous(dlayout)]]
    /\ pc' = "backward"
    /\ UNCHANGED <<x, weight, bias, hidden, seq_idx, activation, conv_state>>

NextFn == FnForward \/ FnBackward

SpecFn == InitFn /\ [][NextFn]_vars

(***************************************************************************)
(* C5: when a segment index is supplied and the segment id at t0 differs   *)
(* from the id at t0-1, the forward output at t0 equals the output         *)
(* computed with all history before t0 replaced by zero padding, whatever  *)
(* the signal and the initial state before t0 are.                         *)
(***************************************************************************)
C5_SegmentIsolation ==
    (pc = "forward" /\ err = "" /\ seq_idx # None) =>
        \A b \in 1..BatchOf(x), t0 \in 2..LenOf(x) :
            seq_idx[b][t0] # seq_idx[b][t0 - 1] =>
                \A d \in 1..DimOf(x) :
                    out[b][d][t0] =
                        ApplyAct(activation,
                            weight[d][WidthOf(weight)] * x[b][d][t0]
                            + (IF bias # None THEN bias[d] ELSE 0))

(***************************************************************************)
(* C9: backward returns the extension's bias gradient in the bias slot if  *)
(* and only if a bias was supplied to the forward call; without bias the   *)
(* slot is None, and the signal gradient and the weight gradient are       *)
(* returned in the first two slots either way.                             *)
(***************************************************************************)
C9_BiasGradConditional ==
    (pc = "backward" /\ err = "") =>
        /\ out[1] = aux.kernel[1]
        /\ Shape3(out[1]) = Shape3(x)
        /\ out[2] = aux.kernel[2]
        /\ Shape2(out[2]) = Shape2(weight)
        /\ bias # None => (out[3] = aux.kernel[3] /\ Len(out[3]) = Len(bias))
        /\ bias = None => out[3] = None

\* a backward after a forward with bias, and its bias gradient
C9_Witness ==
    /\ pc = "backward"
    /\ err = ""
    /\ bias # None
    /\ activation = NoAct
    /\ LenOf(x) = 2
    /\ Shape3(x) = <<1, 1, 2>>
    /\ aux.dout.val = Ones3(<<1, 1>>, 2)
    /\ out[3] = <<2>>

(***************************************************************************)
(* C10: the tuple returned by backward has one entry per forward input     *)
(* (x, weight, bias, hidden, seq_idx, activation: six entries), in the     *)
(* same order, with None in the entries of hidden, seq_idx and activation. *)
(***************************************************************************)
C10_ForwardBackwardPairing ==
    (pc = "backward" /\ err = "") =>
        /\ Len(out) = 6
        /\ out[4] = None
        /\ out[5] = None
        /\ out[6] = None

============================================================================
